---- MODULE Spec2Model ----
(***************************************************************************)
(* The paginated result Iterator of gorc (Next, NextPage, Get, GetPage,    *)
(* GetEvent, GetEventPage over fetchResults) together with the reply       *)
(* handling it calls into (Client.jsonReply, newError).                    *)
(*                                                                         *)
(* Go strings are sequences of one-character strings, Go slices are        *)
(* sequences, and a Go index k designates element k + 1 of a sequence.     *)
(***************************************************************************)
EXTENDS Integers, Sequences, FiniteSets, TLC

(***************************************************************************)
(* Bounds of the model.                                                    *)
(***************************************************************************)
\* The most HTTP requests one iterator issues before the model stops fetching.
MaxFetches == 3

\* The most entries the server puts in one page.
MaxPageLen == 2

\* The most Next() calls recorded after the loop's first false return.
MaxExtraCalls == 2

\* The timestamps converted lie within MaxMillis milliseconds of the epoch,
\* before it and after it.
MaxMillis == 1500

(***************************************************************************)
(* Strings.                                                                *)
(***************************************************************************)
\* "/v0/", the API version prefix.
V0Prefix == <<"/", "v", "0", "/">>

\* "/v0/c?limit=2&offset=2", a continuation link as the server sends it.
NextLink ==
    <<"/", "v", "0", "/", "c", "?", "l", "i", "m", "i", "t", "=", "2", "&",
      "o", "f", "f", "s", "e", "t", "=", "2">>

\* "c?limit=2&offset=2", the trailing path of NextLink.
NextTrailing ==
    <<"c", "?", "l", "i", "m", "i", "t", "=", "2", "&",
      "o", "f", "f", "s", "e", "t", "=", "2">>

\* "/v0/": a link that names nothing below the version prefix.
BareLink == <<"/", "v", "0", "/">>

\* strings.HasPrefix
HasPrefix(s, prefix) ==
    /\ Len(s) >= Len(prefix)
    /\ SubSeq(s, 1, Len(prefix)) = prefix

\* strings.TrimPrefix: s without the leading prefix, or s itself.
TrimPrefix(s, prefix) ==
    IF HasPrefix(s, prefix) THEN SubSeq(s, Len(prefix) + 1, Len(s)) ELSE s

(***************************************************************************)
(* Errors.  Every error value is a record of the same shape; NoError is    *)
(* Go's nil error.                                                         *)
(***************************************************************************)
NoError == [type |-> "nil", StatusCode |-> 0]

Err(type) == [type |-> type, StatusCode |-> 0]

(***************************************************************************)
(* The HTTP exchange.  An outcome is what one GET meets on the wire:       *)
(*   transport  whether client.Do returned a response ("ok") or an error   *)
(*   StatusCode the response status                                        *)
(*   readable   whether the body can be read to its end                    *)
(*   encoding   the Content-Encoding header; "badgzip" is a gzip body      *)
(*              whose header gzip.NewReader rejects                        *)
(*   decodable  whether the body is a JSON page envelope                   *)
(*   body       the envelope (jsonList: next, results, total_count)        *)
(***************************************************************************)
\* jsonListItem number pos of the page answered to request number page.
\* Its Value is the raw payload: "json" (a well-formed document), "garbage"
\* (bytes that are no JSON) or "empty" (no bytes at all).
Entry(page, pos, val) == [Key |-> <<page, pos>>, Value |-> val]

\* The results array of the page answered to request number page.
Page(page, n, val) == [k \in 1..n |-> Entry(page, k, val)]

\* jsonList
Envelope(next, results, total) ==
    [Next |-> next, Results |-> results, TotalCount |-> total]

EmptyEnvelope == Envelope(<<>>, <<>>, 0)

Outcome(transport, status, readable, encoding, decodable, body) ==
    [transport |-> transport, StatusCode |-> status, readable |-> readable,
     encoding |-> encoding, decodable |-> decodable, body |-> body]

\* The links the server puts in "next": none, a versioned link, a bare prefix.
NextValues == {<<>>, NextLink, BareLink}

\* The total_count values the server reports; 0 is an omitted field.
TotalCounts == {0, 7, 42}

\* The payloads the server stores.
Payloads == {"json", "garbage", "empty"}

\* A 200 response carrying a well-formed envelope.
OkOutcomes(page, nexts, totals, vals) ==
    { Outcome("ok", 200, TRUE, "identity", TRUE,
              Envelope(nx, Page(page, n, val), tc)) :
        nx \in nexts, n \in 0..MaxPageLen, tc \in totals, val \in vals }

\* The exchanges that end in an error.
FailedOutcomes ==
    { Outcome("error", 0, FALSE, "identity", FALSE, EmptyEnvelope) }
    \cup { Outcome("ok", s, TRUE, "identity", FALSE, EmptyEnvelope) :
             s \in {404, 409, 412, 419, 500} }
    \cup { Outcome("ok", 404, FALSE, "identity", FALSE, EmptyEnvelope),
           Outcome("ok", 200, TRUE, "badgzip", TRUE, EmptyEnvelope),
           Outcome("ok", 200, TRUE, "gzip", FALSE, EmptyEnvelope),
           Outcome("ok", 200, TRUE, "identity", FALSE, EmptyEnvelope) }

\* Everything the server and the network may answer to request number page.
Outcomes(page) ==
    OkOutcomes(page, NextValues, TotalCounts, {"json"}) \cup FailedOutcomes

\* The answers offered to the loops: total_count is left out.
LoopOutcomes(page) ==
    OkOutcomes(page, NextValues, {0}, {"json"}) \cup FailedOutcomes

\* newError with the 404 case missing.
newError_No404(o) ==
    IF ~o.readable THEN Err("ReadError")
    ELSE CASE o.StatusCode = 409 -> Err("ConflictError")
           [] o.StatusCode = 412 -> Err("PreconditionFailedError")
           [] o.StatusCode = 419 -> Err("RateLimitedError")
           [] OTHER -> [type |-> "UnknownError", StatusCode |-> o.StatusCode]

\* newError taking a 412 for a conflict.
newError_412AsConflict(o) ==
    IF ~o.readable THEN Err("ReadError")
    ELSE CASE o.StatusCode = 404 -> Err("NotFoundError")
           [] o.StatusCode = 409 -> Err("ConflictError")
           [] o.StatusCode = 412 -> Err("ConflictError")
           [] o.StatusCode = 419 -> Err("RateLimitedError")
           [] OTHER -> [type |-> "UnknownError", StatusCode |-> o.StatusCode]

\* newError: the body is read first, then the status is classified.
newError(o) ==
    IF ~o.readable THEN Err("ReadError")
    ELSE CASE o.StatusCode = 404 -> Err("NotFoundError")
           [] o.StatusCode = 409 -> Err("ConflictError")
           [] o.StatusCode = 412 -> Err("PreconditionFailedError")
           [] o.StatusCode = 419 -> Err("RateLimitedError")
           [] OTHER -> [type |-> "UnknownError", StatusCode |-> o.StatusCode]

\* Client.jsonReply: the error it returns, the value it decoded and whether
\* it returns the response.
jsonReply(status, o) ==
    IF o.transport # "ok"
    THEN [err |-> Err("TransportError"), value |-> EmptyEnvelope, resp |-> FALSE]
    ELSE IF o.StatusCode # status
    THEN [err |-> newError(o), value |-> EmptyEnvelope, resp |-> FALSE]
    ELSE IF o.encoding = "badgzip"
    THEN [err |-> Err("GzipError"), value |-> EmptyEnvelope, resp |-> FALSE]
    ELSE IF ~o.decodable
    THEN [err |-> Err("DecodeError"), value |-> EmptyEnvelope, resp |-> FALSE]
    ELSE [err |-> NoError, value |-> o.body, resp |-> TRUE]

\* Client.emptyReply: the error it returns and whether it returns the
\* response.
emptyReply(status, o) ==
    IF o.transport # "ok" THEN [err |-> Err("TransportError"), resp |-> FALSE]
    ELSE IF o.StatusCode # status THEN [err |-> newError(o), resp |-> FALSE]
    ELSE [err |-> NoError, resp |-> TRUE]

(***************************************************************************)
(* The Iterator.  Every operation is a function of the iterator i (and of  *)
(* the outcome o its GET would meet) to                                    *)
(*   it    the iterator afterwards                                         *)
(*   ret   what the call returns: ok (the boolean of Next and NextPage),   *)
(*         value (the typed results, empty for nil) and err                *)
(*   gets  the trailing paths the call requested, in order                 *)
(*   panic whether the call ended in a run-time panic                      *)
(***************************************************************************)
\* &Iterator{client, iteratingItems | iteratingEvents, next: path}
NewIterator(items, events, path) ==
    [Error |-> NoError, TotalCount |-> 0, done |-> FALSE, index |-> 0,
     iteratingEvents |-> events, iteratingItems |-> items,
     next |-> path, results |-> <<>>]

\* List building an empty path.
List_EmptyPath == NewIterator(TRUE, FALSE, <<>>)

\* Collection "c".List(nil): next is "c".
List == NewIterator(TRUE, FALSE, <<"c">>)

\* Collection "c".Search("q", nil): next is "c?query=q".
Search ==
    NewIterator(TRUE, FALSE, <<"c", "?", "q", "u", "e", "r", "y", "=", "q">>)

Digits == <<"0", "1", "2", "3", "4", "5", "6", "7", "8", "9">>

\* strconv.Itoa of a number that is not negative
RECURSIVE Itoa(_)
Itoa(n) ==
    IF n < 10 THEN <<Digits[n + 1]>>
    ELSE Itoa(n \div 10) \o <<Digits[(n % 10) + 1]>>

\* The limit variable Search adds for opts.PageSize, as url.Values.Encode
\* writes it: before "query", the keys being sorted.
Limit(PageSize) ==
    IF PageSize < 0 THEN <<"l", "i", "m", "i", "t", "=", "0", "&">>
    ELSE IF PageSize # 0
    THEN <<"l", "i", "m", "i", "t", "=">> \o Itoa(PageSize) \o <<"&">>
    ELSE <<>>

\* Collection "c".Search("q", &SearchQuery{PageSize: PageSize}): next is
\* "c?limit=0&query=q" for a negative PageSize.
SearchQuery(PageSize) ==
    NewIterator(TRUE, FALSE,
        <<"c", "?">> \o Limit(PageSize) \o <<"q", "u", "e", "r", "y", "=", "q">>)

\* Collection "c".History("k", nil): next is "c/k/refs?".
History ==
    NewIterator(TRUE, FALSE, <<"c", "/", "k", "/", "r", "e", "f", "s", "?">>)

\* Collection "c".GetLinks("k", nil, "r"): next is "c/k/relations/r".
GetLinks ==
    NewIterator(TRUE, FALSE,
        <<"c", "/", "k", "/", "r", "e", "l", "a", "t", "i", "o", "n", "s", "/", "r">>)

\* Collection "c".ListEvents("k", "t", nil): next is "c/k/events/t".
ListEvents ==
    NewIterator(FALSE, TRUE,
        <<"c", "/", "k", "/", "e", "v", "e", "n", "t", "s", "/", "t">>)

Bool(b) == [ok |-> b, value |-> <<>>, err |-> NoError]

Value(v, e) == [ok |-> FALSE, value |-> v, err |-> e]

Call(i, r, gets, panic) == [it |-> i, ret |-> r, gets |-> gets, panic |-> panic]

\* A run-time panic: the call returns nothing and changes nothing.
Panic(i) == Call(i, Value(<<>>, Err("panic")), <<>>, TRUE)

\* fetchResults without the test for an empty next link.
fetchResults_NoEmptyCheck(i, o) ==
    LET r == jsonReply(200, o) IN
    IF r.err # NoError
    THEN Call([i EXCEPT !.Error = r.err], Bool(FALSE), <<i.next>>, FALSE)
    ELSE
      LET i1 == [i EXCEPT !.next = TrimPrefix(r.value.Next, V0Prefix),
                          !.results = r.value.Results]
          i2 == IF Len(r.value.Results) = 0
                THEN [i1 EXCEPT !.done = TRUE]
                ELSE [i1 EXCEPT !.index = 0]
          i3 == IF r.value.TotalCount # 0
                THEN [i2 EXCEPT !.TotalCount = r.value.TotalCount]
                ELSE i2
      IN Call(i3, Bool(~i3.done), <<i.next>>, FALSE)

\* fetchResults keeping the server's link as it came, version prefix and all.
fetchResults_NoTrim(i, o) ==
    IF i.next = <<>> THEN Call([i EXCEPT !.done = TRUE], Bool(FALSE), <<>>, FALSE)
    ELSE
      LET r == jsonReply(200, o) IN
      IF r.err # NoError
      THEN Call([i EXCEPT !.Error = r.err], Bool(FALSE), <<i.next>>, FALSE)
      ELSE
        LET i1 == [i EXCEPT !.next = r.value.Next,
                            !.results = r.value.Results]
            i2 == IF Len(r.value.Results) = 0
                  THEN [i1 EXCEPT !.done = TRUE]
                  ELSE [i1 EXCEPT !.index = 0]
            i3 == IF r.value.TotalCount # 0
                  THEN [i2 EXCEPT !.TotalCount = r.value.TotalCount]
                  ELSE i2
        IN Call(i3, Bool(~i3.done), <<i.next>>, FALSE)

\* fetchResults copying total_count whether or not it is zero.
fetchResults_AlwaysCopyTotal(i, o) ==
    IF i.next = <<>> THEN Call([i EXCEPT !.done = TRUE], Bool(FALSE), <<>>, FALSE)
    ELSE
      LET r == jsonReply(200, o) IN
      IF r.err # NoError
      THEN Call([i EXCEPT !.Error = r.err], Bool(FALSE), <<i.next>>, FALSE)
      ELSE
        LET i1 == [i EXCEPT !.next = TrimPrefix(r.value.Next, V0Prefix),
                            !.results = r.value.Results]
            i2 == IF Len(r.value.Results) = 0
                  THEN [i1 EXCEPT !.done = TRUE]
                  ELSE [i1 EXCEPT !.index = 0]
            i3 == [i2 EXCEPT !.TotalCount = r.value.TotalCount]
        IN Call(i3, Bool(~i3.done), <<i.next>>, FALSE)

\* fetchResults returning on an empty page before it copies total_count.
fetchResults_EmptyPageSkipsTotal(i, o) ==
    IF i.next = <<>> THEN Call([i EXCEPT !.done = TRUE], Bool(FALSE), <<>>, FALSE)
    ELSE
      LET r == jsonReply(200, o) IN
      IF r.err # NoError
      THEN Call([i EXCEPT !.Error = r.err], Bool(FALSE), <<i.next>>, FALSE)
      ELSE
        LET i1 == [i EXCEPT !.next = TrimPrefix(r.value.Next, V0Prefix),
                            !.results = r.value.Results]
            i2 == IF Len(r.value.Results) = 0
                  THEN [i1 EXCEPT !.done = TRUE]
                  ELSE [i1 EXCEPT !.index = 0]
            i3 == IF r.value.TotalCount # 0 /\ ~i2.done
                  THEN [i2 EXCEPT !.TotalCount = r.value.TotalCount]
                  ELSE i2
        IN Call(i3, Bool(~i3.done), <<i.next>>, FALSE)
\* fetchResults leaving next as it was when the page is empty.
fetchResults_KeepsNextOnEmptyPage(i, o) ==
    IF i.next = <<>> THEN Call([i EXCEPT !.done = TRUE], Bool(FALSE), <<>>, FALSE)
    ELSE
      LET r == jsonReply(200, o) IN
      IF r.err # NoError
      THEN Call([i EXCEPT !.Error = r.err], Bool(FALSE), <<i.next>>, FALSE)
      ELSE
        LET i1 == IF Len(r.value.Results) = 0
                  THEN [i EXCEPT !.results = r.value.Results]
                  ELSE [i EXCEPT !.next = TrimPrefix(r.value.Next, V0Prefix),
                                 !.results = r.value.Results]
            i2 == IF Len(r.value.Results) = 0
                  THEN [i1 EXCEPT !.done = TRUE]
                  ELSE [i1 EXCEPT !.index = 0]
            i3 == IF r.value.TotalCount # 0
                  THEN [i2 EXCEPT !.TotalCount = r.value.TotalCount]
                  ELSE i2
        IN Call(i3, Bool(~i3.done), <<i.next>>, FALSE)
\* fetchResults setting done as well when the GET fails.
fetchResults_FailSetsDone(i, o) ==
    IF i.next = <<>> THEN Call([i EXCEPT !.done = TRUE], Bool(FALSE), <<>>, FALSE)
    ELSE
      LET r == jsonReply(200, o) IN
      IF r.err # NoError
      THEN Call([i EXCEPT !.Error = r.err, !.done = TRUE], Bool(FALSE), <<i.next>>, FALSE)
      ELSE
        LET i1 == [i EXCEPT !.next = TrimPrefix(r.value.Next, V0Prefix),
                            !.results = r.value.Results]
            i2 == IF Len(r.value.Results) = 0
                  THEN [i1 EXCEPT !.done = TRUE]
                  ELSE [i1 EXCEPT !.index = 0]
            i3 == IF r.value.TotalCount # 0
                  THEN [i2 EXCEPT !.TotalCount = r.value.TotalCount]
                  ELSE i2
        IN Call(i3, Bool(~i3.done), <<i.next>>, FALSE)
\* fetchResults returning false on a failed GET without recording the error.
fetchResults_DropsError(i, o) ==
    IF i.next = <<>> THEN Call([i EXCEPT !.done = TRUE], Bool(FALSE), <<>>, FALSE)
    ELSE
      LET r == jsonReply(200, o) IN
      IF r.err # NoError
      THEN Call(i, Bool(FALSE), <<i.next>>, FALSE)
      ELSE
        LET i1 == [i EXCEPT !.next = TrimPrefix(r.value.Next, V0Prefix),
                            !.results = r.value.Results]
            i2 == IF Len(r.value.Results) = 0
                  THEN [i1 EXCEPT !.done = TRUE]
                  ELSE [i1 EXCEPT !.index = 0]
            i3 == IF r.value.TotalCount # 0
                  THEN [i2 EXCEPT !.TotalCount = r.value.TotalCount]
                  ELSE i2
        IN Call(i3, Bool(~i3.done), <<i.next>>, FALSE)

\* fetchResults returning false on an empty next link without setting done.
fetchResults_EmptyLinkNotDone(i, o) ==
    IF i.next = <<>> THEN Call(i, Bool(FALSE), <<>>, FALSE)
    ELSE
      LET r == jsonReply(200, o) IN
      IF r.err # NoError
      THEN Call([i EXCEPT !.Error = r.err], Bool(FALSE), <<i.next>>, FALSE)
      ELSE
        LET i1 == [i EXCEPT !.next = TrimPrefix(r.value.Next, V0Prefix),
                            !.results = r.value.Results]
            i2 == IF Len(r.value.Results) = 0
                  THEN [i1 EXCEPT !.done = TRUE]
                  ELSE [i1 EXCEPT !.index = 0]
            i3 == IF r.value.TotalCount # 0
                  THEN [i2 EXCEPT !.TotalCount = r.value.TotalCount]
                  ELSE i2
        IN Call(i3, Bool(~i3.done), <<i.next>>, FALSE)

\* fetchResults appending the new page to the buffered one.
fetchResults_AppendsPage(i, o) ==
    IF i.next = <<>> THEN Call([i EXCEPT !.done = TRUE], Bool(FALSE), <<>>, FALSE)
    ELSE
      LET r == jsonReply(200, o) IN
      IF r.err # NoError
      THEN Call([i EXCEPT !.Error = r.err], Bool(FALSE), <<i.next>>, FALSE)
      ELSE
        LET i1 == [i EXCEPT !.next = TrimPrefix(r.value.Next, V0Prefix),
                            !.results = i.results \o r.value.Results]
            i2 == IF Len(r.value.Results) = 0
                  THEN [i1 EXCEPT !.done = TRUE]
                  ELSE [i1 EXCEPT !.index = 0]
            i3 == IF r.value.TotalCount # 0
                  THEN [i2 EXCEPT !.TotalCount = r.value.TotalCount]
                  ELSE i2
        IN Call(i3, Bool(~i3.done), <<i.next>>, FALSE)

\* fetchResults
fetchResults(i, o) ==
    IF i.next = <<>> THEN Call([i EXCEPT !.done = TRUE], Bool(FALSE), <<>>, FALSE)
    ELSE
      LET r == jsonReply(200, o) IN
      IF r.err # NoError
      THEN Call([i EXCEPT !.Error = r.err], Bool(FALSE), <<i.next>>, FALSE)
      ELSE
        LET i1 == [i EXCEPT !.next = TrimPrefix(r.value.Next, V0Prefix),
                            !.results = r.value.Results]
            i2 == IF Len(r.value.Results) = 0
                  THEN [i1 EXCEPT !.done = TRUE]
                  ELSE [i1 EXCEPT !.index = 0]
            i3 == IF r.value.TotalCount # 0
                  THEN [i2 EXCEPT !.TotalCount = r.value.TotalCount]
                  ELSE i2
        IN Call(i3, Bool(~i3.done), <<i.next>>, FALSE)

\* Next stepping while index < len(results), one step too far.
Next_OffByOne(i, o) ==
    IF i.done \/ i.Error # NoError THEN Call(i, Bool(FALSE), <<>>, FALSE)
    ELSE IF i.index < Len(i.results)
    THEN Call([i EXCEPT !.index = i.index + 1], Bool(TRUE), <<>>, FALSE)
    ELSE fetchResults(i, o)

\* Next testing done alone before it advances.
Next_NoErrorCheck(i, o) ==
    IF i.done THEN Call(i, Bool(FALSE), <<>>, FALSE)
    ELSE IF i.index < Len(i.results) - 1
    THEN Call([i EXCEPT !.index = i.index + 1], Bool(TRUE), <<>>, FALSE)
    ELSE fetchResults(i, o)

\* Iterator.Next
Next(i, o) ==
    IF i.done \/ i.Error # NoError THEN Call(i, Bool(FALSE), <<>>, FALSE)
    ELSE IF i.index < Len(i.results) - 1
    THEN Call([i EXCEPT !.index = i.index + 1], Bool(TRUE), <<>>, FALSE)
    ELSE fetchResults(i, o)

\* NextPage testing done alone before it fetches.
NextPage_NoErrorCheck(i, o) ==
    IF i.done THEN Call(i, Bool(FALSE), <<>>, FALSE)
    ELSE fetchResults(i, o)

\* NextPage fetching only once the entries of the page are used up.
NextPage_KeepsUnread(i, o) ==
    IF i.done \/ i.Error # NoError THEN Call(i, Bool(FALSE), <<>>, FALSE)
    ELSE IF i.index < Len(i.results) - 1 THEN Call(i, Bool(TRUE), <<>>, FALSE)
    ELSE fetchResults(i, o)

\* Iterator.NextPage
NextPage(i, o) ==
    IF i.done \/ i.Error # NoError THEN Call(i, Bool(FALSE), <<>>, FALSE)
    ELSE fetchResults(i, o)

\* The (bool, error) a ...WithError method returns: c is its call of Next or
\* NextPage on i.  Go fixes no order between that call and the read of
\* i.Error in "return i.Next(), i.Error"; early tells whether the build
\* reads the field before it makes the call.
WithError(i, c, early) ==
    Call(c.it, [ok |-> c.ret.ok, value |-> <<>>,
                err |-> IF early THEN i.Error ELSE c.it.Error],
         c.gets, c.panic)

\* NextWithError returning a nil error whatever Error holds.
NextWithError_NilError(i, o, early) ==
    Call(Next(i, o).it, Bool(Next(i, o).ret.ok), Next(i, o).gets, FALSE)

\* Iterator.NextWithError
NextWithError(i, o, early) == WithError(i, Next(i, o), early)

\* Iterator.NextPageWithError
NextPageWithError(i, o, early) == WithError(i, NextPage(i, o), early)

\* json.Unmarshal of a raw payload.
Unmarshal(val) == IF val = "json" THEN NoError ELSE Err("UnmarshalError")

\* &Item{Key: r.Path.Key, Value: r.Value, ...}
Item(r) == [Kind |-> "Item", Key |-> r.Key, Value |-> r.Value]

\* &Event2{Key: r.Path.Key, Value: r.Value, ...}
Event2(r) == [Kind |-> "Event2", Key |-> r.Key, Value |-> r.Value]

(***************************************************************************)
(* Timestamps.  The server reports milliseconds since epoch in an int64;   *)
(* Go's / truncates toward zero and its % takes the sign of the dividend.  *)
(* All the values met below stay far inside the 64 bits of the code.       *)
(***************************************************************************)
Quo(a, b) == IF a >= 0 THEN a \div b ELSE -((-a) \div b)

Rem(a, b) == a - b * Quo(a, b)

\* time.Unix(sec, nsec): nsec outside [0, 999999999] is carried into sec.
Unix(sec, nsec) ==
    IF nsec < 0 \/ nsec >= 1000000000
    THEN LET n == Quo(nsec, 1000000000)
             s == sec + n
             ns == nsec - n * 1000000000
         IN IF ns < 0 THEN [sec |-> s - 1, nsec |-> ns + 1000000000]
                      ELSE [sec |-> s, nsec |-> ns]
    ELSE [sec |-> sec, nsec |-> nsec]

\* Time.UnixNano
UnixNano(t) == t.sec * 1000000000 + t.nsec

\* The conversion with the remainder scaled to microseconds.
Timestamp_Micros(t) == Unix(Quo(t, 1000), Rem(t, 1000) * 1000)

\* secs := t / 1000; nsecs := (t % 1000) * 1000000; time.Unix(secs, nsecs)
Timestamp(t) == Unix(Quo(t, 1000), Rem(t, 1000) * 1000000)

\* Timestamp.UnixNano()/1000000, the milliseconds in an event's path.
PathMillis(t) == Quo(UnixNano(t), 1000000)

\* Get recording the payload's decode error in Error.
Get_DecodeErrorSticks(i, out) ==
    IF ~i.iteratingItems
    THEN Call(i, Value(<<>>, Err("Not an Item Iterator.")), <<>>, FALSE)
    ELSE IF i.index >= Len(i.results) THEN Panic(i)
    ELSE
      LET r == i.results[i.index + 1] IN
      IF out /\ r.Value # "empty"
      THEN Call([i EXCEPT !.Error = Unmarshal(r.Value)],
                Value(<<Item(r)>>, Unmarshal(r.Value)), <<>>, FALSE)
      ELSE Call(i, Value(<<Item(r)>>, NoError), <<>>, FALSE)

\* Get stepping to the next entry once it has read the current one.
Get_Advances(i, out) ==
    IF ~i.iteratingItems
    THEN Call(i, Value(<<>>, Err("Not an Item Iterator.")), <<>>, FALSE)
    ELSE IF i.index >= Len(i.results) THEN Panic(i)
    ELSE
      LET r == i.results[i.index + 1]
          i1 == [i EXCEPT !.index = i.index + 1] IN
      IF out /\ r.Value # "empty"
      THEN Call(i1, Value(<<Item(r)>>, Unmarshal(r.Value)), <<>>, FALSE)
      ELSE Call(i1, Value(<<Item(r)>>, NoError), <<>>, FALSE)

\* Iterator.Get; out tells whether the value argument is non-nil.
Get(i, out) ==
    IF ~i.iteratingItems
    THEN Call(i, Value(<<>>, Err("Not an Item Iterator.")), <<>>, FALSE)
    ELSE IF i.index >= Len(i.results) THEN Panic(i)
    ELSE
      LET r == i.results[i.index + 1] IN
      IF out /\ r.Value # "empty"
      THEN Call(i, Value(<<Item(r)>>, Unmarshal(r.Value)), <<>>, FALSE)
      ELSE Call(i, Value(<<Item(r)>>, NoError), <<>>, FALSE)

\* GetPage taking the current entry for read and returning those after it.
GetPage_SkipsCurrent(i) ==
    IF ~i.iteratingItems
    THEN Call(i, Value(<<>>, Err("Not an Item Iterator.")), <<>>, FALSE)
    ELSE IF Len(i.results) - i.index < 0 THEN Panic(i)
    ELSE
      LET n == Len(i.results) - i.index
          items == [offset \in 1..(n - 1) |-> Item(i.results[i.index + 1 + offset])]
      IN Call([i EXCEPT !.index = i.index + n], Value(items, NoError), <<>>, FALSE)

\* GetPage returning the unread items without moving index.
GetPage_NoAdvance(i) ==
    IF ~i.iteratingItems
    THEN Call(i, Value(<<>>, Err("Not an Item Iterator.")), <<>>, FALSE)
    ELSE IF Len(i.results) - i.index < 0 THEN Panic(i)
    ELSE
      LET n == Len(i.results) - i.index
          items == [offset \in 1..n |-> Item(i.results[i.index + offset])]
      IN Call(i, Value(items, NoError), <<>>, FALSE)

\* Iterator.GetPage
GetPage(i) ==
    IF ~i.iteratingItems
    THEN Call(i, Value(<<>>, Err("Not an Item Iterator.")), <<>>, FALSE)
    ELSE IF Len(i.results) - i.index < 0 THEN Panic(i)
    ELSE
      LET n == Len(i.results) - i.index
          items == [offset \in 1..n |-> Item(i.results[i.index + offset])]
      IN Call([i EXCEPT !.index = i.index + n], Value(items, NoError), <<>>, FALSE)

\* GetEvent decoding nothing.
GetEvent_NeverDecodes(i, out) ==
    IF ~i.iteratingEvents
    THEN Call(i, Value(<<>>, Err("Not an Event Iterator.")), <<>>, FALSE)
    ELSE IF i.index >= Len(i.results) THEN Panic(i)
    ELSE Call(i, Value(<<Event2(i.results[i.index + 1])>>, NoError), <<>>, FALSE)

\* Iterator.GetEvent; out tells whether the value argument is non-nil.
GetEvent(i, out) ==
    IF ~i.iteratingEvents
    THEN Call(i, Value(<<>>, Err("Not an Event Iterator.")), <<>>, FALSE)
    ELSE IF i.index >= Len(i.results) THEN Panic(i)
    ELSE
      LET r == i.results[i.index + 1] IN
      IF out
      THEN Call(i, Value(<<Event2(r)>>, Unmarshal(r.Value)), <<>>, FALSE)
      ELSE Call(i, Value(<<Event2(r)>>, NoError), <<>>, FALSE)

\* GetEventPage without the test of the iterator's mode.
GetEventPage_NoModeCheck(i) ==
    IF Len(i.results) - i.index < 0 THEN Panic(i)
    ELSE
      LET n == Len(i.results) - i.index
          events == [offset \in 1..n |-> Event2(i.results[i.index + offset])]
      IN Call([i EXCEPT !.index = i.index + n], Value(events, NoError), <<>>, FALSE)

\* Iterator.GetEventPage
GetEventPage(i) ==
    IF ~i.iteratingEvents
    THEN Call(i, Value(<<>>, Err("Not an Event Iterator.")), <<>>, FALSE)
    ELSE IF Len(i.results) - i.index < 0 THEN Panic(i)
    ELSE
      LET n == Len(i.results) - i.index
          events == [offset \in 1..n |-> Event2(i.results[i.index + offset])]
      IN Call([i EXCEPT !.index = i.index + n], Value(events, NoError), <<>>, FALSE)

(***************************************************************************)
(* State.                                                                  *)
(***************************************************************************)
VARIABLES
    it,         \* the Iterator
    fetches,    \* the number of GETs the iterator has issued
    lastPath,   \* the trailing path of its most recent GET
    reply,      \* the outcome of its most recent GET
    lastOp,     \* the most recent call on it
    drained,    \* whether the call before that one was a GetPage or a
                \* GetEventPage that returned a page
    pre,        \* the Iterator as the most recent call found it
    gets,       \* the trailing paths the most recent call requested
    ret,        \* what that call returned
    panicked,   \* whether that call panicked
    lastTotal,  \* the last non-zero total_count a successful GET reported
    served,     \* loops: the outcomes served so far, one per GET, in order
    returns,    \* Next loop: per Next() call, what it returned (ok) and the
                \* entry index designated afterwards (entry)
    pcA,        \* page loop: where "for it.NextPage() { it.GetPage() }" stands
    gotA,       \* page loop: the items its GetPage calls returned
    itB,        \* item loop: the Iterator of "for it.Next() { it.Get(nil) }"
    fetchesB,   \* item loop: the number of GETs itB has issued
    pcB,        \* item loop: where the loop stands
    gotB,       \* item loop: the items its Get calls returned
    skipped,    \* the keys of the entries that were unreturned when NextPage()
                \* was called on an iterator neither done nor failed: dropped
                \* (its GET brought a new page), kept (it brought none) and
                \* keptAfter (those of kept behind the current entry)
    ms,         \* timestamps: the milliseconds since epoch the server reported
    updated,    \* timestamps: the time.Time built of ms
    addressed,  \* timestamps: the milliseconds Event2.Delete puts in its path
    pcT,        \* timestamps: how far the conversion has come
    called,     \* single requests: the function called and its arguments
    sent,       \* single requests: the requests it sent
    answer,     \* single requests: the exchange its request met
    result      \* single requests: what it returned

iterVars ==
    <<it, fetches, lastPath, reply, lastOp, drained, pre, gets, ret, panicked,
      lastTotal>>

pageLoopVars == <<pcA, gotA>>

itemLoopVars == <<itB, fetchesB, pcB, gotB>>

timeVars == <<ms, updated, addressed, pcT>>

wireVars == <<called, sent, answer, result>>

vars == <<iterVars, served, returns, pageLoopVars, itemLoopVars, skipped, timeVars, wireVars>>

\* The calls that build an Iterator.
Factories == {List, Search, History, GetLinks, ListEvents}

\* Whether the exchange handed a page envelope to the caller.
Succeeded(o) ==
    /\ o.transport = "ok"
    /\ o.StatusCode = 200
    /\ o.encoding # "badgzip"
    /\ o.decodable

\* The state right after a factory call: nothing has been requested.
Fresh(f) ==
    /\ it = f
    /\ fetches = 0
    /\ lastPath = <<>>
    /\ reply = Outcome("none", 0, FALSE, "identity", FALSE, EmptyEnvelope)
    /\ lastOp = "new"
    /\ drained = FALSE
    /\ pre = f
    /\ gets = <<>>
    /\ ret = Bool(FALSE)
    /\ panicked = FALSE
    /\ lastTotal = 0
    /\ served = <<>>
    /\ returns = <<>>
    /\ pcA = "advance"
    /\ gotA = {}
    /\ itB = f
    /\ fetchesB = 0
    /\ pcB = "advance"
    /\ gotB = {}
    /\ skipped = [dropped |-> {}, kept |-> {}, keptAfter |-> {}]
    /\ called = [op |-> "none"]
    /\ sent = <<>>
    /\ answer = Outcome("none", 0, FALSE, "identity", FALSE, EmptyEnvelope)
    /\ result = [err |-> NoError]

\* No timestamp is being converted.
NoTimestamp ==
    /\ ms = 0
    /\ updated = Unix(0, 0)
    /\ addressed = 0
    /\ pcT = "idle"

Init == \E f \in Factories : Fresh(f) /\ NoTimestamp

\* The effect of call c, named op, on the iterator; o is the outcome its GET
\* met, if it issued one.
Apply(op, c, o) ==
    /\ it' = c.it
    /\ fetches' = fetches + Len(c.gets)
    /\ lastPath' = IF c.gets # <<>> THEN c.gets[Len(c.gets)] ELSE lastPath
    /\ reply' = IF c.gets # <<>> THEN o ELSE reply
    /\ lastOp' = op
    /\ drained' = (lastOp \in {"GetPage", "GetEventPage"} /\ ret.err = NoError)
    /\ pre' = it
    /\ gets' = c.gets
    /\ ret' = c.ret
    /\ panicked' = c.panic
    /\ lastTotal' = IF c.gets # <<>> /\ Succeeded(o) /\ o.body.TotalCount # 0
                    THEN o.body.TotalCount
                    ELSE lastTotal

(***************************************************************************)
(* Spec: one iterator under any sequence of calls, every GET meeting any   *)
(* outcome.                                                                *)
(***************************************************************************)
\* Whether Next or NextPage issues a GET is decided by the iterator alone;
\* only a call that issues one meets an outcome, and the model stops issuing
\* GETs after MaxFetches of them.
DoNext ==
    /\ ~panicked
    /\ LET probe == Next(it, reply) IN
       IF probe.gets = <<>>
       THEN Apply("Next", probe, reply)
       ELSE /\ fetches < MaxFetches
            /\ \E o \in Outcomes(fetches + 1) : Apply("Next", Next(it, o), o)
    /\ UNCHANGED <<served, returns, pageLoopVars, itemLoopVars, skipped, timeVars, wireVars>>

DoNextPage ==
    /\ ~panicked
    /\ LET probe == NextPage(it, reply) IN
       IF probe.gets = <<>>
       THEN Apply("NextPage", probe, reply)
       ELSE /\ fetches < MaxFetches
            /\ \E o \in Outcomes(fetches + 1) : Apply("NextPage", NextPage(it, o), o)
    /\ UNCHANGED <<served, returns, pageLoopVars, itemLoopVars, skipped, timeVars, wireVars>>

DoGet ==
    /\ ~panicked
    /\ \E out \in BOOLEAN : Apply("Get", Get(it, out), reply)
    /\ UNCHANGED <<served, returns, pageLoopVars, itemLoopVars, skipped, timeVars, wireVars>>

DoGetPage ==
    /\ ~panicked
    /\ Apply("GetPage", GetPage(it), reply)
    /\ UNCHANGED <<served, returns, pageLoopVars, itemLoopVars, skipped, timeVars, wireVars>>

DoGetEvent ==
    /\ ~panicked
    /\ \E out \in BOOLEAN : Apply("GetEvent", GetEvent(it, out), reply)
    /\ UNCHANGED <<served, returns, pageLoopVars, itemLoopVars, skipped, timeVars, wireVars>>

DoGetEventPage ==
    /\ ~panicked
    /\ Apply("GetEventPage", GetEventPage(it), reply)
    /\ UNCHANGED <<served, returns, pageLoopVars, itemLoopVars, skipped, timeVars, wireVars>>

Step ==
    \/ DoNext
    \/ DoNextPage
    \/ DoGet
    \/ DoGetPage
    \/ DoGetEvent
    \/ DoGetEventPage

Spec == Init /\ [][Step]_vars

(***************************************************************************)
(* The loops.  The server's answers are logged in served, one per GET in   *)
(* request order; an iterator's GET number n + 1 meets served[n + 1] when  *)
(* another iterator has already drawn it, and draws a new answer otherwise.*)
(***************************************************************************)
Answers(n) ==
    IF n < Len(served) THEN {served[n + 1]}
    ELSE IF Len(served) < MaxFetches THEN LoopOutcomes(n + 1)
    ELSE {}

Serve(n, c, o) ==
    served' = IF c.gets # <<>> /\ n >= Len(served) THEN Append(served, o) ELSE served

NoEntry == <<0, 0>>

\* The entry index designates, if it designates one.
Current(i) ==
    IF i.index < Len(i.results) THEN i.results[i.index + 1].Key ELSE NoEntry

\* The number of false returns among rs.
Falses(rs) == Cardinality({k \in 1..Len(rs) : ~rs[k].ok})

(***************************************************************************)
(* SpecNextLoop: "for it.Next() { }", and up to MaxExtraCalls more calls   *)
(* of Next() after the one that ended the loop.                            *)
(***************************************************************************)
LoopNext ==
    /\ ~panicked
    /\ Falses(returns) <= MaxExtraCalls
    /\ LET probe == Next(it, reply) IN
       IF probe.gets = <<>>
       THEN Apply("Next", probe, reply) /\ served' = served
       ELSE \E o \in Answers(fetches) :
              Apply("Next", Next(it, o), o) /\ Serve(fetches, Next(it, o), o)
    /\ returns' = Append(returns, [ok |-> ret'.ok, entry |-> Current(it')])
    /\ UNCHANGED <<pageLoopVars, itemLoopVars, skipped, timeVars, wireVars>>

SpecNextLoop == Init /\ [][LoopNext]_vars

(***************************************************************************)
(* SpecLoops: "for a.NextPage() { a.GetPage() }" on the iterator it and    *)
(* "for b.Next() { b.Get(nil) }" on the iterator itB, both built by the    *)
(* same factory call and served the same answers.                         *)
(***************************************************************************)
PageLoopAdvance ==
    /\ pcA = "advance"
    /\ LET probe == NextPage(it, reply) IN
       IF probe.gets = <<>>
       THEN Apply("NextPage", probe, reply) /\ served' = served
       ELSE \E o \in Answers(fetches) :
              Apply("NextPage", NextPage(it, o), o) /\ Serve(fetches, NextPage(it, o), o)
    /\ pcA' = IF ret'.ok THEN "read" ELSE "done"
    /\ UNCHANGED <<gotA, returns, itemLoopVars, skipped, timeVars, wireVars>>

PageLoopRead ==
    /\ pcA = "read"
    /\ Apply("GetPage", GetPage(it), reply)
    /\ gotA' = gotA \cup {ret'.value[k] : k \in 1..Len(ret'.value)}
    /\ pcA' = IF panicked' THEN "panicked" ELSE "advance"
    /\ UNCHANGED <<served, returns, itemLoopVars, skipped, timeVars, wireVars>>

ItemLoopAdvance ==
    /\ pcB = "advance"
    /\ LET probe == Next(itB, reply) IN
       IF probe.gets = <<>>
       THEN /\ itB' = probe.it
            /\ pcB' = IF probe.ret.ok THEN "read" ELSE "done"
            /\ UNCHANGED <<fetchesB, served>>
       ELSE \E o \in Answers(fetchesB) :
              LET c == Next(itB, o) IN
              /\ itB' = c.it
              /\ pcB' = IF c.ret.ok THEN "read" ELSE "done"
              /\ fetchesB' = fetchesB + Len(c.gets)
              /\ Serve(fetchesB, c, o)
    /\ UNCHANGED <<gotB, iterVars, returns, pageLoopVars, skipped, timeVars, wireVars>>

ItemLoopRead ==
    /\ pcB = "read"
    /\ LET c == Get(itB, FALSE) IN
       /\ itB' = c.it
       /\ gotB' = gotB \cup {c.ret.value[k] : k \in 1..Len(c.ret.value)}
       /\ pcB' = IF c.panic THEN "panicked" ELSE "advance"
    /\ UNCHANGED <<fetchesB, served, iterVars, returns, pageLoopVars, skipped, timeVars, wireVars>>

LoopsStep ==
    \/ PageLoopAdvance
    \/ PageLoopRead
    \/ ItemLoopAdvance
    \/ ItemLoopRead

SpecLoops == Init /\ [][LoopsStep]_vars

(***************************************************************************)
(* Properties of Spec.  In every state, pre is the iterator as the most    *)
(* recent call (lastOp) found it, it is the iterator as the call left it,  *)
(* ret is what the call returned and gets are the GETs it issued.          *)
(***************************************************************************)
Range(seq) == {seq[k] : k \in 1..Len(seq)}

Exhausted(i) == i.done

Failed(i) == i.Error # NoError

\* The iterator holds a page and may still advance.
Loaded(i) == Len(i.results) > 0 /\ ~i.done /\ i.Error = NoError

Advances == {"Next", "NextPage"}

\* C2: once the iterator is Exhausted or Failed it stays so, every later
\* Next() or NextPage() returns false and issues no GET, and done never
\* goes back to false.
C2_TerminalStaysTerminal ==
    /\ pre.done => it.done
    /\ (Exhausted(pre) \/ Failed(pre)) =>
         /\ Exhausted(it) \/ Failed(it)
         /\ lastOp \in Advances => ~ret.ok /\ gets = <<>>

\* C2: Next() was called on an iterator that a 404 had already failed.
C2_Witness ==
    /\ pre.Error = Err("NotFoundError")
    /\ lastOp = "Next"
    /\ ret = Bool(FALSE)
    /\ gets = <<>>

\* C3 as the specification states it: once Error is set, no later call
\* issues a GET or changes index.
C3_FrozenAfterError ==
    Failed(pre) => gets = <<>> /\ it.index = pre.index

\* C3 as the code has it: once Error is set, no later call issues a GET or
\* changes Error, results, next, done or TotalCount, and index is moved
\* only by GetPage and GetEventPage, which set it to len(results).
C3_FrozenButForDrain ==
    Failed(pre) =>
        /\ gets = <<>>
        /\ [it EXCEPT !.index = pre.index] = pre
        /\ it.index # pre.index =>
             /\ lastOp \in {"GetPage", "GetEventPage"}
             /\ it.index = Len(it.results)

\* C3: GetPage() drained unread entries of an iterator whose Error was set.
C3_Witness ==
    /\ Failed(pre)
    /\ lastOp = "GetPage"
    /\ it.index > pre.index

\* The call was an advance past the last entry of a page of at least one
\* entry that came without a continuation link.
PastLastPageWithoutLink ==
    /\ Loaded(pre)
    /\ pre.next = <<>>
    /\ \/ lastOp = "Next" /\ pre.index >= Len(pre.results) - 1
       \/ lastOp = "NextPage"

\* C4 as the specification states it: after a page with entries and no
\* continuation link, the advance past its last entry still issues a GET.
C4_FetchesWithoutLink ==
    PastLastPageWithoutLink => Len(gets) = 1

\* C4 as the code has it: after a page with entries and no continuation
\* link, the advance past its last entry issues no GET; the empty next
\* alone sets done, and the call returns false with Error nil.
C4_EmptyLinkEndsIteration ==
    PastLastPageWithoutLink =>
        /\ gets = <<>>
        /\ it = [pre EXCEPT !.done = TRUE]
        /\ ret = Bool(FALSE)

\* C4: Next() ran past the last entry of a first page that had no link.
C4_Witness ==
    /\ PastLastPageWithoutLink
    /\ lastOp = "Next"
    /\ fetches = 1
    /\ reply.body.Next = <<>>
    /\ it.done

\* The call was an accessor of the mode the iterator does not have.
WrongMode ==
    \/ lastOp \in {"GetEvent", "GetEventPage"} /\ ~pre.iteratingEvents
    \/ lastOp \in {"Get", "GetPage"} /\ ~pre.iteratingItems

\* C7: an accessor of the wrong mode returns an error and no result, does
\* not panic, issues no GET and leaves every field of the iterator as it
\* was, whatever state the iterator is in.
C7_WrongModeChangesNothing ==
    WrongMode =>
        /\ ret.err # NoError
        /\ ret.value = <<>>
        /\ ~panicked
        /\ gets = <<>>
        /\ it = pre

\* C7: GetEventPage() was called on an item iterator with unread entries.
C7_Witness ==
    /\ lastOp = "GetEventPage"
    /\ pre.iteratingItems
    /\ pre.index < Len(pre.results)

\* C8: TotalCount is 0 before the first GET and is always the last non-zero
\* total_count a successful GET reported (0 if none did).
C8_TotalCountSticky ==
    /\ fetches = 0 => it.TotalCount = 0
    /\ it.TotalCount = lastTotal

\* C8: the first page reported 42 and the second page omitted total_count.
C8_Witness ==
    /\ fetches = 2
    /\ Succeeded(reply)
    /\ reply.body.TotalCount = 0
    /\ it.TotalCount = 42

\* The call was a Next() right after a GetPage() or GetEventPage() that
\* drained the page of a Loaded iterator.
NextAfterDrain ==
    /\ drained
    /\ lastOp = "Next"
    /\ Loaded(pre)

\* No entry of the page the call found is the current entry after it.
NoReread ==
    it.index < Len(it.results) => it.results[it.index + 1] \notin Range(pre.results)

\* C9 as the specification states it: GetPage() followed at once by Next()
\* issues exactly one GET and does not make a drained entry current.
C9_DrainThenNextFetchesOnce ==
    NextAfterDrain => Len(gets) = 1 /\ NoReread

\* C9 as the code has it: GetPage() followed at once by Next() issues one
\* GET when the iterator holds a continuation link and none when next is
\* empty (the iterator then becomes Exhausted); in neither case does a
\* drained entry become current.
C9_DrainThenNextFetchesAtMostOnce ==
    NextAfterDrain =>
        /\ Len(gets) = (IF pre.next = <<>> THEN 0 ELSE 1)
        /\ pre.next = <<>> => it.done /\ ~ret.ok
        /\ NoReread

\* C9: Next() after a drain fetched a new page and made its first entry
\* current.
C9_Witness ==
    /\ NextAfterDrain
    /\ Len(gets) = 1
    /\ ret.ok
    /\ it.index = 0

(***************************************************************************)
(* Properties of SpecNextLoop.                                             *)
(***************************************************************************)
RECURSIVE EntriesIn(_)
\* The number of entries over all the pages fetched.
EntriesIn(log) ==
    IF log = <<>> THEN 0
    ELSE EntriesIn(SubSeq(log, 1, Len(log) - 1))
         + (IF Succeeded(log[Len(log)]) THEN Len(log[Len(log)].body.Results) ELSE 0)

\* The calls of the loop that returned true.
Trues == {k \in 1..Len(returns) : returns[k].ok}

\* C1: in a run of Next() calls, every true return leaves index on an entry
\* of the buffered page that no earlier true return designated, no call
\* returns true after one returned false, and once a call has returned
\* false the true returns number the entries of all the pages fetched.
C1_TrueReturnsCountEntries ==
    /\ \A k \in Trues : returns[k].entry # NoEntry
    /\ \A j, k \in Trues : j < k => returns[j].entry # returns[k].entry
    /\ \A j, k \in 1..Len(returns) : j < k /\ ~returns[j].ok => ~returns[k].ok
    /\ Cardinality(Trues) <= EntriesIn(served)
    /\ Falses(returns) > 0 => Cardinality(Trues) = EntriesIn(served)

\* C1: the loop ended after three GETs, two of them pages with entries.
C1_Witness ==
    /\ Falses(returns) > 0
    /\ Len(served) = 3
    /\ Cardinality(Trues) >= 3

\* Page 1 holds 2 entries and next = "/v0/c?limit=2&offset=2"; page 2, once
\* fetched, holds none.
TwoEntriesThenNone ==
    /\ Len(served) >= 1
    /\ Succeeded(served[1])
    /\ Len(served[1].body.Results) = 2
    /\ served[1].body.Next = NextLink
    /\ Len(served) >= 2 =>
         Succeeded(served[2]) /\ Len(served[2].body.Results) = 0

\* C5: with those two pages, Next() returns true, true, false; the first two
\* calls make one GET between them, the third makes the second and last
\* GET, against "c?limit=2&offset=2", and leaves done set and Error nil.
C5_TwoEntriesThenEmptyPage ==
    TwoEntriesThenNone =>
        /\ Len(returns) >= 1 => returns[1].ok
        /\ Len(returns) >= 2 => returns[2].ok
        /\ Len(returns) <= 2 => fetches = 1
        /\ Len(returns) >= 3 =>
             /\ ~returns[3].ok
             /\ fetches = 2
             /\ lastPath = NextTrailing
             /\ it.done
             /\ it.Error = NoError

\* C5: the third Next() of the scenario has returned.
C5_Witness ==
    /\ TwoEntriesThenNone
    /\ Len(returns) = 3
    /\ Len(served) = 2

\* The first GET was answered with status 404.
First404 ==
    /\ Len(served) >= 1
    /\ served[1].transport = "ok"
    /\ served[1].StatusCode = 404

\* Every Next() so far returned false, one GET was made, done is not set.
FailedOnFirstFetch ==
    /\ \A k \in 1..Len(returns) : ~returns[k].ok
    /\ fetches = 1
    /\ ~it.done

\* C6 as the specification states it: after a 404 on the first GET every
\* Next() returns false, Error is a NotFoundError, done stays false and
\* no second GET is made.
C6_NotFoundOnFirstFetch ==
    First404 => FailedOnFirstFetch /\ it.Error = Err("NotFoundError")

\* C6 as the code has it: Error is a NotFoundError when the body of the 404
\* response could be read, and the error of reading it otherwise.
C6_NotFoundWhenBodyReadable ==
    First404 =>
        /\ FailedOnFirstFetch
        /\ it.Error = (IF served[1].readable
                       THEN Err("NotFoundError")
                       ELSE Err("ReadError"))

\* C6: Next() was called a second time after a 404 with a readable body.
C6_Witness ==
    /\ First404
    /\ served[1].readable
    /\ Len(returns) = 2

(***************************************************************************)
(* Properties of SpecLoops.                                                *)
(***************************************************************************)
\* C10: when both loops have ended, without a panic, the items GetPage()
\* returned to the page loop are the items Get() returned to the item loop.
C10_LoopsReturnSameEntries ==
    /\ pcA # "panicked"
    /\ pcB # "panicked"
    /\ pcA = "done" /\ pcB = "done" => gotA = gotB

\* C10: both loops ended after reading two pages with entries.
C10_Witness ==
    /\ pcA = "done"
    /\ pcB = "done"
    /\ fetches = 3
    /\ fetchesB = 3
    /\ Cardinality(gotA) >= 3

(***************************************************************************)
(* More properties of Spec.                                                *)
(***************************************************************************)
\* The call was GetPage() on an item iterator or GetEventPage() on an event
\* iterator.
PageCall ==
    \/ lastOp = "GetPage" /\ pre.iteratingItems
    \/ lastOp = "GetEventPage" /\ pre.iteratingEvents

\* The typed result the page accessor last called builds of entry r.
Typed(r) == IF lastOp = "GetPage" THEN Item(r) ELSE Event2(r)

\* C11: GetPage() and GetEventPage() return the buffered entries from
\* position index to the end of the page, in page order, set index to
\* len(results), change nothing else and issue no GET; called again with
\* no fetch in between they return an empty list.
C11_PageDrainsUnread ==
    PageCall =>
        /\ ~panicked
        /\ ret.err = NoError
        /\ Len(ret.value) = Len(pre.results) - pre.index
        /\ \A k \in 1..Len(ret.value) : ret.value[k] = Typed(pre.results[pre.index + k])
        /\ it = [pre EXCEPT !.index = Len(pre.results)]
        /\ gets = <<>>
        /\ drained => ret.value = <<>>

(***************************************************************************)
(* SpecSkip: any sequence of Next, NextPage, Get and GetPage on a listing, *)
(* with the entries NextPage() passes over recorded in skipped.            *)
(***************************************************************************)
\* The keys of the entries GetPage or GetEventPage would return.
Unreturned(i) == {i.results[k].Key : k \in (i.index + 1)..Len(i.results)}

\* Those of them behind the current entry.
Behind(i) == {i.results[k].Key : k \in (i.index + 2)..Len(i.results)}

Live(i) == ~i.done /\ i.Error = NoError

\* What call c of NextPage() passes over.
Track(c) ==
    skipped' =
        IF ~Live(it) THEN skipped
        ELSE IF c.gets # <<>> /\ c.it.Error = NoError
        THEN [skipped EXCEPT !.dropped = @ \cup Unreturned(it)]
        ELSE [skipped EXCEPT !.kept = @ \cup Unreturned(it),
                             !.keptAfter = @ \cup Behind(it)]

SkipNextPage ==
    /\ ~panicked
    /\ LET probe == NextPage(it, reply) IN
       IF probe.gets = <<>>
       THEN Apply("NextPage", probe, reply) /\ Track(probe)
       ELSE /\ fetches < MaxFetches
            /\ \E o \in LoopOutcomes(fetches + 1) :
                 Apply("NextPage", NextPage(it, o), o) /\ Track(NextPage(it, o))
    /\ UNCHANGED <<served, returns, pageLoopVars, itemLoopVars, timeVars, wireVars>>

SkipNext ==
    /\ ~panicked
    /\ LET probe == Next(it, reply) IN
       IF probe.gets = <<>>
       THEN Apply("Next", probe, reply)
       ELSE /\ fetches < MaxFetches
            /\ \E o \in LoopOutcomes(fetches + 1) : Apply("Next", Next(it, o), o)
    /\ UNCHANGED <<served, returns, pageLoopVars, itemLoopVars, skipped, timeVars, wireVars>>

SkipStep ==
    \/ SkipNext
    \/ SkipNextPage
    \/ DoGet
    \/ DoGetPage

InitSkip == Fresh(List) /\ NoTimestamp

SpecSkip == InitSkip /\ [][SkipStep]_vars

\* The keys of the entries the most recent call returned or moved to.
Returned ==
    IF panicked THEN {}
    ELSE IF lastOp \in {"Get", "GetPage", "GetEvent", "GetEventPage"}
    THEN {ret.value[k].Key : k \in 1..Len(ret.value)}
    ELSE IF lastOp \in Advances /\ ret.ok THEN {Current(it)}
    ELSE {}

\* NextPage() on an iterator neither done nor failed is fetchResults(),
\* whatever index is.
NextPageFetches ==
    lastOp = "NextPage" /\ Live(pre) =>
        LET c == fetchResults(pre, reply) IN
          it = c.it /\ ret = c.ret /\ gets = c.gets /\ ~panicked

\* C12 as the specification states it: NextPage() on an iterator neither
\* Failed nor Exhausted makes the fetch transition of Next() whatever index
\* is, and no later Get, GetPage or Next returns an entry that was unread
\* when it was called.
C12_UnreadNeverReturned ==
    /\ NextPageFetches
    /\ Returned \cap (skipped.dropped \cup skipped.keptAfter) = {}

\* C12 as the code has it: NextPage() on an iterator neither Failed nor
\* Exhausted makes the fetch transition of Next() whatever index is; the
\* unread entries are never returned again when its GET succeeds; when the
\* GET fails, or next is empty and no GET is issued, they stay buffered on
\* the then Failed or Exhausted iterator, where Next never moves to them
\* but the accessors still return them.
C12_UnreadDroppedByNewPage ==
    /\ NextPageFetches
    /\ Returned \cap skipped.dropped = {}
    /\ Returned \cap skipped.kept # {} =>
          /\ lastOp \notin Advances
          /\ Failed(it) \/ Exhausted(it)

\* C12: NextPage() passed over the second entry of a page and brought a new
\* page, whose entries GetPage() then returned.
C12_Witness ==
    /\ lastOp = "GetPage"
    /\ Len(ret.value) > 0
    /\ \E k \in skipped.dropped : k[2] = 2

(***************************************************************************)
(* SpecWithError: any sequence of NextWithError, NextPageWithError, Get    *)
(* and GetEvent.                                                           *)
(***************************************************************************)
DoNextWithError ==
    /\ ~panicked
    /\ \E early \in BOOLEAN :
         LET probe == NextWithError(it, reply, early) IN
         IF probe.gets = <<>>
         THEN Apply("NextWithError", probe, reply)
         ELSE /\ fetches < MaxFetches
              /\ \E o \in LoopOutcomes(fetches + 1) :
                   Apply("NextWithError", NextWithError(it, o, early), o)
    /\ UNCHANGED <<served, returns, pageLoopVars, itemLoopVars, skipped, timeVars, wireVars>>

DoNextPageWithError ==
    /\ ~panicked
    /\ \E early \in BOOLEAN :
         LET probe == NextPageWithError(it, reply, early) IN
         IF probe.gets = <<>>
         THEN Apply("NextPageWithError", probe, reply)
         ELSE /\ fetches < MaxFetches
              /\ \E o \in LoopOutcomes(fetches + 1) :
                   Apply("NextPageWithError", NextPageWithError(it, o, early), o)
    /\ UNCHANGED <<served, returns, pageLoopVars, itemLoopVars, skipped, timeVars, wireVars>>

WithErrorStep ==
    \/ DoNextWithError
    \/ DoNextPageWithError
    \/ DoGet
    \/ DoGetEvent

SpecWithError == Init /\ [][WithErrorStep]_vars

\* The call was Get() on an item iterator or GetEvent() on an event iterator.
EntryCall ==
    \/ lastOp = "Get" /\ pre.iteratingItems
    \/ lastOp = "GetEvent" /\ pre.iteratingEvents

\* NextWithError() and NextPageWithError() on a Failed iterator return
\* (false, Error) and issue no GET.
AdvanceReportsError ==
    Failed(pre) /\ lastOp \in {"NextWithError", "NextPageWithError"} =>
        /\ ret = [ok |-> FALSE, value |-> <<>>, err |-> pre.Error]
        /\ gets = <<>>
        /\ it = pre

\* C14 as the specification states it: after a page fetch has failed,
\* NextWithError() and NextPageWithError() return (false, the error
\* recorded), and Get() and GetEvent() report that error.
C14_ErrorSurfacedEverywhere ==
    /\ AdvanceReportsError
    /\ Failed(pre) /\ EntryCall => ~panicked /\ ret.err = pre.Error

\* C14 as the code has it: after a page fetch has failed,
\* NextWithError() and NextPageWithError() return (false, the error
\* recorded); Get() and GetEvent() never report it: they return the entry
\* still buffered at index with a nil error, and panic when there is none.
C14_ErrorSurfacedByAdvanceOnly ==
    /\ AdvanceReportsError
    /\ Failed(pre) /\ EntryCall =>
          /\ it = pre
          /\ gets = <<>>
          /\ IF pre.index < Len(pre.results)
             THEN /\ ~panicked
                  /\ ret.err = NoError
                  /\ Len(ret.value) = 1
                  /\ ret.value[1].Key = pre.results[pre.index + 1].Key
             ELSE panicked

\* C14: NextWithError() was called on an iterator whose second GET had
\* failed, and returned (false, that error).
C14_Witness ==
    /\ lastOp = "NextWithError"
    /\ Failed(pre)
    /\ Len(pre.results) > 0
    /\ ret.err = pre.Error
    /\ ~ret.ok

(***************************************************************************)
(* SpecDecode: Next, Get and GetEvent on a listing of items or of events   *)
(* whose payloads may fail to decode.                                      *)
(***************************************************************************)
\* Pages of payloads of every kind, with or without a next link, and a
\* failed exchange.
DecodeOutcomes(page) ==
    OkOutcomes(page, {<<>>, NextLink}, {0}, Payloads)
    \cup { Outcome("error", 0, FALSE, "identity", FALSE, EmptyEnvelope) }

DecodeNext ==
    /\ ~panicked
    /\ LET probe == Next(it, reply) IN
       IF probe.gets = <<>>
       THEN Apply("Next", probe, reply)
       ELSE /\ fetches < MaxFetches
            /\ \E o \in DecodeOutcomes(fetches + 1) : Apply("Next", Next(it, o), o)
    /\ UNCHANGED <<served, returns, pageLoopVars, itemLoopVars, skipped, timeVars, wireVars>>

DecodeStep ==
    \/ DecodeNext
    \/ DoGet
    \/ DoGetEvent

InitDecode == \E f \in {List, ListEvents} : Fresh(f) /\ NoTimestamp

SpecDecode == InitDecode /\ [][DecodeStep]_vars

\* The call was a Get(value) or GetEvent(value) whose payload did not decode.
DecodeFailed ==
    /\ lastOp \in {"Get", "GetEvent"}
    /\ ret.err = Err("UnmarshalError")

\* The iterator as the same accessor leaves it when it decodes nothing.
Undecoded == IF lastOp = "Get" THEN Get(pre, FALSE).it ELSE GetEvent(pre, FALSE).it

\* C13: a payload decode error returned by Get(value) or GetEvent(value)
\* sets neither Error nor done and changes none of index, results and
\* next, and issues no GET; Next() then does what it does after the same
\* accessor called without decoding.
C13_DecodeErrorChangesNothing ==
    DecodeFailed =>
        /\ ~panicked
        /\ it = pre
        /\ gets = <<>>
        /\ Len(ret.value) = 1
        /\ \A o \in DecodeOutcomes(fetches + 1) : Next(it, o) = Next(Undecoded, o)

\* C13: GetEvent(value) met an empty payload on a page that has a second
\* entry and a next link.
C13_Witness ==
    /\ DecodeFailed
    /\ lastOp = "GetEvent"
    /\ pre.results[pre.index + 1].Value = "empty"
    /\ Len(pre.results) = 2
    /\ pre.next # <<>>

PageSizes == {-1, 0, 25}

InitSearch == \E n \in PageSizes : Fresh(SearchQuery(n)) /\ NoTimestamp

SpecSearch == InitSearch /\ [][Step]_vars

\* The call issued the iterator's first GET, which brought a page of no
\* results that reports a total_count.
CountOnly ==
    /\ lastOp \in Advances
    /\ gets # <<>>
    /\ fetches = 1
    /\ Succeeded(reply)
    /\ reply.body.Results = <<>>
    /\ reply.body.TotalCount # 0

\* C16: when the first fetch succeeds with zero results and a non-zero
\* total_count, Next() returns false, Error is nil, done is set and
\* TotalCount is the total_count reported.
C16_CountOnlySearch ==
    CountOnly =>
        /\ ret = Bool(FALSE)
        /\ it.Error = NoError
        /\ it.done
        /\ it.results = <<>>
        /\ it.TotalCount = reply.body.TotalCount

\* C16: the first Next() of a Search with a negative PageSize asked for
\* "c?limit=0&query=q" and was told of 42 matches.
C16_Witness ==
    /\ CountOnly
    /\ lastOp = "Next"
    /\ pre = SearchQuery(-1)
    /\ gets = << <<"c", "?", "l", "i", "m", "i", "t", "=", "0", "&",
                   "q", "u", "e", "r", "y", "=", "q">> >>
    /\ it.TotalCount = 42

(***************************************************************************)
(* SpecTime: a timestamp the server reports is made a time.Time by an      *)
(* accessor, and made milliseconds again for the path of Event2.Delete or  *)
(* Event2.Update.                                                          *)
(***************************************************************************)
InitTime ==
    /\ Fresh(ListEvents)
    /\ ms \in -MaxMillis..MaxMillis
    /\ updated = Unix(0, 0)
    /\ addressed = 0
    /\ pcT = "reported"

\* Get, GetPage, GetEvent, GetEventPage, Collection.GetEvent: the entry's
\* reftime or timestamp becomes Updated or Timestamp.
BuildTime ==
    /\ pcT = "reported"
    /\ updated' = Timestamp(ms)
    /\ pcT' = "built"
    /\ UNCHANGED <<iterVars, served, returns, pageLoopVars, itemLoopVars, skipped,
                   ms, addressed, wireVars>>

\* Event2.Delete, Event2.Update: the path names the event by its milliseconds.
AddressEvent ==
    /\ pcT = "built"
    /\ addressed' = PathMillis(updated)
    /\ pcT' = "addressed"
    /\ UNCHANGED <<iterVars, served, returns, pageLoopVars, itemLoopVars, skipped,
                   ms, updated, wireVars>>

TimeStep == BuildTime \/ AddressEvent

SpecTime == InitTime /\ [][TimeStep]_vars

\* C17: the time built of a server timestamp ms as
\* Unix(ms/1000, (ms%1000)*1000000) has its nanoseconds in [0, 999999999]
\* and stands for ms*1000000 nanoseconds since epoch, and
\* UnixNano()/1000000 of it is ms again: the path of Event2.Delete and
\* Event2.Update names the millisecond the server reported.
C17_MillisRoundTrip ==
    /\ pcT \in {"built", "addressed"} =>
          /\ updated.nsec \in 0..999999999
          /\ UnixNano(updated) = ms * 1000000
    /\ pcT = "addressed" => addressed = ms

\* C17: a timestamp before the epoch that is no multiple of a second went
\* round.
C17_Witness ==
    /\ pcT = "addressed"
    /\ ms = -1001
    /\ updated = [sec |-> -2, nsec |-> 999000000]

(***************************************************************************)
(* SpecTokens: Next, NextPage and GetPage on a History listing whose pages *)
(* carry next links of every shape; served logs the answer to every GET.   *)
(***************************************************************************)
\* "/v0//v0/c": the version prefix twice.
TwiceLink == <<"/", "v", "0", "/", "/", "v", "0", "/", "c">>

\* "v0/c": the version prefix without its leading slash.
SlashlessLink == <<"v", "0", "/", "c">>

TokenLinks == {<<>>, NextLink, BareLink, NextTrailing, TwiceLink, SlashlessLink}

TokenOutcomes(page) ==
    OkOutcomes(page, TokenLinks, {0}, {"json"})
    \cup { Outcome("error", 0, FALSE, "identity", FALSE, EmptyEnvelope),
           Outcome("ok", 500, TRUE, "identity", FALSE, EmptyEnvelope) }

TokenNext ==
    /\ ~panicked
    /\ LET probe == Next(it, reply) IN
       IF probe.gets = <<>>
       THEN Apply("Next", probe, reply) /\ served' = served
       ELSE /\ fetches < MaxFetches
            /\ \E o \in TokenOutcomes(fetches + 1) :
                 Apply("Next", Next(it, o), o) /\ served' = Append(served, o)
    /\ UNCHANGED <<returns, pageLoopVars, itemLoopVars, skipped, timeVars, wireVars>>

TokenNextPage ==
    /\ ~panicked
    /\ LET probe == NextPage(it, reply) IN
       IF probe.gets = <<>>
       THEN Apply("NextPage", probe, reply) /\ served' = served
       ELSE /\ fetches < MaxFetches
            /\ \E o \in TokenOutcomes(fetches + 1) :
                 Apply("NextPage", NextPage(it, o), o) /\ served' = Append(served, o)
    /\ UNCHANGED <<returns, pageLoopVars, itemLoopVars, skipped, timeVars, wireVars>>

TokenStep ==
    \/ TokenNext
    \/ TokenNextPage
    \/ DoGetPage

InitTokens == Fresh(History) /\ NoTimestamp

SpecTokens == InitTokens /\ [][TokenStep]_vars

\* s without "/v0/" in front, if it starts with that.
Stripped(s) ==
    IF Len(s) >= 4 /\ s[1] = "/" /\ s[2] = "v" /\ s[3] = "0" /\ s[4] = "/"
    THEN [k \in 1..(Len(s) - 4) |-> s[k + 4]]
    ELSE s

\* C18: every GET after the first asks for the next value of the response
\* before it, which was a successful one, without a leading "/v0/" and
\* otherwise unchanged; and after every successful GET, that of a page of
\* no entries too, the token the iterator holds is the next value of that
\* response, stripped so.
C18_FetchFollowsPreviousNext ==
    /\ Len(served) = fetches
    /\ gets # <<>> => gets = <<lastPath>>
    /\ fetches >= 2 =>
          /\ Succeeded(served[fetches - 1])
          /\ lastPath = Stripped(served[fetches - 1].body.Next)
    /\ fetches >= 1 /\ Succeeded(served[fetches]) =>
          it.next = Stripped(served[fetches].body.Next)

\* C18: the first response named its successor without the prefix, the
\* second GET asked for exactly that and brought a page of no entries whose
\* own link became the token.
C18_Witness ==
    /\ fetches = 2
    /\ served[1].body.Next = NextTrailing
    /\ lastPath = NextTrailing
    /\ Succeeded(served[2])
    /\ served[2].body.Results = <<>>
    /\ served[2].body.Next = TwiceLink
    /\ it.next = <<"/", "v", "0", "/", "c">>

(***************************************************************************)
(* Properties of Spec on failed GETs.                                      *)
(***************************************************************************)
\* The call issued a GET, which failed.
FetchFailed == gets # <<>> /\ ~Succeeded(reply)

\* The error Client.jsonReply returns for exchange o, stated by its cause.
ErrorOf(o) ==
    IF o.transport = "error" THEN Err("TransportError")
    ELSE IF o.StatusCode # 200
    THEN IF ~o.readable THEN Err("ReadError")
         ELSE IF o.StatusCode = 404 THEN Err("NotFoundError")
         ELSE IF o.StatusCode = 409 THEN Err("ConflictError")
         ELSE IF o.StatusCode = 412 THEN Err("PreconditionFailedError")
         ELSE IF o.StatusCode = 419 THEN Err("RateLimitedError")
         ELSE [type |-> "UnknownError", StatusCode |-> o.StatusCode]
    ELSE IF o.encoding = "badgzip" THEN Err("GzipError")
    ELSE Err("DecodeError")

\* C19: a GET that fails inside Next() or NextPage(), by a transport error,
\* a status other than 200 or an envelope that does not decode, stores its
\* error in Error and makes the call return false; next, results, index,
\* done and TotalCount stay as they were before the call.
C19_FailedFetchOnlySetsError ==
    FetchFailed =>
        /\ lastOp \in Advances
        /\ ret = Bool(FALSE)
        /\ ~panicked
        /\ it.Error = ErrorOf(reply)
        /\ it.Error # NoError
        /\ it = [pre EXCEPT !.Error = it.Error]

\* C19: NextPage() met a 419 on an iterator that held a page with a total
\* count and an unread entry.
C19_Witness ==
    /\ FetchFailed
    /\ lastOp = "NextPage"
    /\ reply.StatusCode = 419
    /\ it.Error = Err("RateLimitedError")
    /\ Len(it.results) = 2
    /\ it.index = 0
    /\ it.TotalCount = 7
    /\ it.next = NextTrailing
    /\ ~it.done

\* C20: a call of Next() or NextPage() issues at most one GET and no other
\* call issues any; a GET that failed leaves the iterator Failed, which
\* issues no GET again: the last GET issued is the only one that can have
\* failed.
C20_NoRetry ==
    /\ Len(gets) <= 1
    /\ gets # <<>> => lastOp \in Advances
    /\ Failed(pre) => gets = <<>>
    /\ fetches >= 1 /\ ~Succeeded(reply) => Failed(it)
    /\ Failed(it) => fetches >= 1 /\ ~Succeeded(reply)

\* C20: Next() and then NextPage() were called on an iterator whose second
\* GET had failed, and issued none.
C20_Witness ==
    /\ Failed(pre)
    /\ lastOp = "NextPage"
    /\ drained = FALSE
    /\ gets = <<>>
    /\ fetches = 2
    /\ reply.transport = "error"
    /\ ~ret.ok

(***************************************************************************)
(* Properties of Spec on successful GETs.                                  *)
(***************************************************************************)
\* The call issued a GET, which brought a page.
FetchSucceeded == gets # <<>> /\ Succeeded(reply)

\* C21: a successful fetch of at least one entry makes results exactly the
\* entries of the new page, keeping none of the page before, sets index to
\* 0 and returns true; a successful fetch of no entries sets done and
\* returns false.
C21_NewPageReplacesBuffer ==
    FetchSucceeded =>
        /\ ~panicked
        /\ it.results = reply.body.Results
        /\ Range(it.results) \cap Range(pre.results) = {}
        /\ IF Len(reply.body.Results) >= 1
           THEN it.index = 0 /\ ret = Bool(TRUE) /\ ~it.done
           ELSE it.done /\ ret = Bool(FALSE) /\ it.index = pre.index

\* C21: a page of one entry took the place of a page of two whose second
\* entry was the current one.
C21_Witness ==
    /\ FetchSucceeded
    /\ Len(pre.results) = 2
    /\ pre.index = 1
    /\ Len(it.results) = 1
    /\ it.index = 0
    /\ ret.ok

(***************************************************************************)
(* SpecReply: Client.jsonReply and Client.emptyReply called with the       *)
(* status they expect, the request meeting any exchange.                   *)
(***************************************************************************)
HttpStatuses == {200, 201, 204, 404, 409, 412, 419, 500}

\* A body that would decode into a page, whatever the status it comes with.
SomeEnvelope == Envelope(NextLink, Page(1, 1, "json"), 7)

ReplyOutcomes ==
    { Outcome("ok", st, rd, enc, dec, IF dec THEN SomeEnvelope ELSE EmptyEnvelope) :
        st \in HttpStatuses, rd \in BOOLEAN,
        enc \in {"identity", "gzip", "badgzip"}, dec \in BOOLEAN }
    \cup { Outcome("error", 0, FALSE, "identity", FALSE, EmptyEnvelope) }

CallJsonReply ==
    /\ \E o \in ReplyOutcomes :
         /\ called' = [op |-> "jsonReply", status |-> 200]
         /\ sent' = << [method |-> "GET", status |-> 200] >>
         /\ answer' = o
         /\ result' = jsonReply(200, o)
    /\ UNCHANGED <<iterVars, served, returns, pageLoopVars, itemLoopVars, skipped,
                   timeVars>>

CallEmptyReply ==
    /\ \E o \in ReplyOutcomes, st \in {201, 204} :
         /\ called' = [op |-> "emptyReply", status |-> st]
         /\ sent' = << [method |-> "PUT", status |-> st] >>
         /\ answer' = o
         /\ result' = emptyReply(st, o)
    /\ UNCHANGED <<iterVars, served, returns, pageLoopVars, itemLoopVars, skipped,
                   timeVars>>

ReplyStep == CallJsonReply \/ CallEmptyReply

SpecReply == Init /\ [][ReplyStep]_vars

\* The response came with another status than the one expected.
UnexpectedStatus ==
    /\ called.op \in {"jsonReply", "emptyReply"}
    /\ answer.transport = "ok"
    /\ answer.StatusCode # called.status

\* The error that stands for a status.
Classified(st) ==
    IF st = 404 THEN Err("NotFoundError")
    ELSE IF st = 409 THEN Err("ConflictError")
    ELSE IF st = 412 THEN Err("PreconditionFailedError")
    ELSE IF st = 419 THEN Err("RateLimitedError")
    ELSE [type |-> "UnknownError", StatusCode |-> st]

\* No response is returned and nothing is decoded.
NothingReturned ==
    /\ ~result.resp
    /\ called.op = "jsonReply" => result.value = EmptyEnvelope

\* C22 as the specification states it: when the status differs from the
\* expected one, jsonReply and emptyReply return no response, decode
\* nothing, and return the error that stands for the status: 404
\* NotFoundError, 409 ConflictError, 412 PreconditionFailedError, 419
\* RateLimitedError, UnknownError with the status otherwise.
C22_ClassifiedByStatus ==
    UnexpectedStatus =>
        /\ NothingReturned
        /\ result.err = Classified(answer.StatusCode)

\* C22 as the code has it: when the status differs from the expected one,
\* jsonReply and emptyReply return no response and decode nothing; the
\* error is the one that stands for the status when the body could be read
\* to its end, and the error of that read when it could not.
C22_ClassifiedWhenBodyRead ==
    UnexpectedStatus =>
        /\ NothingReturned
        /\ result.err # NoError
        /\ result.err = IF answer.readable THEN Classified(answer.StatusCode)
                        ELSE Err("ReadError")

\* C22: emptyReply expected 204 and met a 412 whose body it could read.
C22_Witness ==
    /\ UnexpectedStatus
    /\ called = [op |-> "emptyReply", status |-> 204]
    /\ answer.StatusCode = 412
    /\ answer.readable
    /\ result = [err |-> Err("PreconditionFailedError"), resp |-> FALSE]

(***************************************************************************)
(* The calls that write.  Each sends at most one request; as an operator   *)
(* it gives the requests sent (sent), the *Item or *Event2 returned (item, *)
(* NoItem for nil) and the error returned (err), o being the exchange the  *)
(* request meets.  The collection is "c"; marshals tells whether           *)
(* json.Marshal accepts the value.                                         *)
(***************************************************************************)
NoItem == [Kind |-> "nil"]

Request(method, path, headers, status) ==
    [method |-> method, path |-> path, headers |-> headers, status |-> status]

Written(requests, item, err) == [sent |-> requests, item |-> item, err |-> err]

\* AlreadyExistsError(key), NotMostRecentError(ref)
ErrOf(type, arg) == [type |-> type, StatusCode |-> 0, arg |-> arg]

\* The translation taking a ConflictError as well.
Translate_ConflictToo(err, instead) ==
    IF err.type \in {"PreconditionFailedError", "ConflictError"} THEN instead ELSE err

\* if _, ok := err.(PreconditionFailedError); ok { err = instead }
Translate(err, instead) ==
    IF err.type = "PreconditionFailedError" THEN instead ELSE err

\* `"` + ref + `"`
Quoted(ref) == <<"\"">> \o ref \o <<"\"">>

\* strings.Split
RECURSIVE Split(_, _)
Split(str, sep) ==
    IF \E k \in 1..Len(str) : str[k] = sep
    THEN LET k == CHOOSE j \in 1..Len(str) :
                    str[j] = sep /\ \A h \in 1..(j - 1) : str[h] # sep
         IN <<SubSeq(str, 1, k - 1)>> \o Split(SubSeq(str, k + 1, Len(str)), sep)
    ELSE <<str>>

\* Whether strconv.ParseInt(str, 10, 64) succeeds, for numbers without sign.
IsInt(str) ==
    /\ Len(str) > 0
    /\ \A k \in 1..Len(str) : \E d \in 1..10 : Digits[d] = str[k]

\* The number strconv.ParseInt reads.
RECURSIVE ParseInt(_)
ParseInt(str) ==
    IF Len(str) = 0 THEN 0
    ELSE 10 * ParseInt(SubSeq(str, 1, Len(str) - 1))
         + (CHOOSE d \in 0..9 : Digits[d + 1] = str[Len(str)])

\* Collection.innerPutPost: the request goes out under the name "METHOD",
\* the method argument is not used.
innerPutPost(method, key, headers, marshals, o) ==
    IF ~marshals THEN Written(<<>>, NoItem, Err("MarshalError"))
    ELSE
      LET req == Request("METHOD", <<"c", "/">> \o key, headers, 201)
          r == emptyReply(201, o)
      IN IF r.err # NoError THEN Written(<<req>>, NoItem, r.err)
         ELSE LET locs == Split(o.Location, "/") IN
              IF Len(locs) < 3
              THEN Written(<<req>>, NoItem, Err("Missing Location header."))
              ELSE Written(<<req>>,
                           [Kind |-> "Item", Key |-> locs[Len(locs) - 2],
                            Ref |-> locs[Len(locs)]],
                           NoError)

\* Collection.Create
Create(key, marshals, o) ==
    LET w == IF key = <<>>
             THEN innerPutPost("POST", <<>>, {}, marshals, o)
             ELSE innerPutPost("PUT", key, {<<"If-None-Match", Quoted(<<"*">>)>>},
                               marshals, o)
    IN Written(w.sent, w.item,
               Translate(w.err, ErrOf("AlreadyExistsError", key)))

\* Collection.Update
Update(key, marshals, o) == innerPutPost("PUT", key, {}, marshals, o)

\* Item.Update; i is the receiver.
ItemUpdate(i, marshals, o) ==
    LET w == innerPutPost("PUT", i.Key, {<<"If-Match", Quoted(i.Ref)>>}, marshals, o)
    IN Written(w.sent, w.item, Translate(w.err, ErrOf("NotMostRecentError", i.Key)))

\* Item.Delete; it returns an error alone.
ItemDelete(i, o) ==
    LET req == Request("DELETE", <<"c", "/">> \o i.Key,
                       {<<"If-Match", Quoted(i.Ref)>>}, 204)
        r == emptyReply(204, o)
    IN Written(<<req>>, NoItem, Translate(r.err, ErrOf("NotMostRecentError", i.Ref)))

\* The Ref an Etag header gives: the error met, or the ref between quotes.
EtagRef(etag) ==
    IF etag = <<>> THEN [err |-> Err("Missing ETag header."), ref |-> <<>>]
    ELSE IF Len(Split(etag, "\"")) # 3
    THEN [err |-> Err("Malformed ETag header."), ref |-> <<>>]
    ELSE [err |-> NoError, ref |-> Split(etag, "\"")[2]]

\* Item.Patch
ItemPatch(i, marshals, o) ==
    IF ~marshals THEN Written(<<>>, NoItem, Err("MarshalError"))
    ELSE
      LET req == Request("PATCH", <<"c", "/">> \o i.Key,
                         {<<"If-Match", Quoted(i.Ref)>>}, 201)
          r == emptyReply(201, o)
      IN IF r.err # NoError
         THEN Written(<<req>>, NoItem,
                      Translate(r.err, ErrOf("NotMostRecentError", i.Ref)))
         ELSE IF EtagRef(o.Etag).err # NoError
         THEN Written(<<req>>, NoItem, EtagRef(o.Etag).err)
         ELSE Written(<<req>>,
                      [Kind |-> "Item", Key |-> i.Key, Ref |-> EtagRef(o.Etag).ref],
                      NoError)

\* "<collection>/<key>/events/<type>/<milliseconds>/<ordinal>"
EventPath(key, typ, ts, ordinal) ==
    <<"c", "/">> \o key \o <<"/", "e", "v", "e", "n", "t", "s", "/">> \o typ
    \o <<"/">> \o Itoa(PathMillis(ts)) \o <<"/">> \o Itoa(ordinal)

\* Event2.Delete; e is the receiver.
EventDelete(e, o) ==
    LET req == Request("DELETE",
                       EventPath(e.Key, e.Type, e.Timestamp, e.Ordinal)
                       \o <<"?", "p", "u", "r", "g", "e", "=", "t", "r", "u", "e">>,
                       {<<"If-Match", Quoted(e.Ref)>>}, 204)
        r == emptyReply(204, o)
    IN Written(<<req>>, NoItem, Translate(r.err, ErrOf("NotMostRecentError", e.Ref)))

\* Collection.innerUpdateEvent
innerUpdateEvent(key, typ, ts, ordinal, marshals, headers, o) ==
    IF ~marshals THEN Written(<<>>, NoItem, Err("MarshalError"))
    ELSE
      LET req == Request("PUT", EventPath(key, typ, ts, ordinal), headers, 204)
          r == emptyReply(204, o)
          parts == Split(o.Location, "/")
      IN IF r.err # NoError THEN Written(<<req>>, NoItem, r.err)
         ELSE IF o.Location = <<>>
         THEN Written(<<req>>, NoItem, Err("Missing Location header."))
         ELSE IF Len(parts) # 8
         THEN Written(<<req>>, NoItem, Err("Malformed Location header."))
         ELSE IF ~IsInt(parts[7])
         THEN Written(<<req>>, NoItem,
                      Err("Malformed Timestamp in the Location header."))
         ELSE IF ~IsInt(parts[8])
         THEN Written(<<req>>, NoItem,
                      Err("Malformed Ordinal in the Location header."))
         ELSE IF EtagRef(o.Etag).err # NoError
         THEN Written(<<req>>, NoItem, EtagRef(o.Etag).err)
         ELSE Written(<<req>>,
                      [Kind |-> "Event2", Key |-> key, Type |-> typ,
                       Ordinal |-> ParseInt(parts[8]),
                       Timestamp |-> Timestamp(ParseInt(parts[7])),
                       Ref |-> EtagRef(o.Etag).ref],
                      NoError)

\* Event2.Update
EventUpdate(e, marshals, o) ==
    LET w == innerUpdateEvent(e.Key, e.Type, e.Timestamp, e.Ordinal, marshals,
                 {<<"If-Match", Quoted(e.Ref)>>,
                  <<"Content-Type", <<"application/json">>>>}, o)
    IN Written(w.sent, w.item, Translate(w.err, ErrOf("NotMostRecentError", e.Ref)))

(***************************************************************************)
(* SpecWrites: the writing calls, each meeting any exchange.               *)
(***************************************************************************)
\* "/v0/c/k/refs/r2", the Location of a stored item.
ItemLocation ==
    <<"/", "v", "0", "/", "c", "/", "k", "/", "r", "e", "f", "s", "/", "r", "2">>

\* "/v0/c/k/events/t/1500/7", the Location of a stored event.
EventLocation ==
    <<"/", "v", "0", "/", "c", "/", "k", "/", "e", "v", "e", "n", "t", "s", "/",
      "t", "/", "1", "5", "0", "0", "/", "7">>

WriteOutcome(transport, status, readable, location, etag) ==
    [transport |-> transport, StatusCode |-> status, readable |-> readable,
     Location |-> location, Etag |-> etag]

WriteOutcomes ==
    { WriteOutcome("ok", st, rd, loc, etag) :
        st \in {201, 204, 404, 409, 412, 500}, rd \in BOOLEAN,
        loc \in {<<>>, ItemLocation, EventLocation},
        etag \in {<<>>, Quoted(<<"r", "2">>), <<"r", "2">>} }
    \cup { WriteOutcome("error", 0, FALSE, <<>>, <<>>) }

\* The keys Create and Update are called with; "" lets the server choose.
Keys == {<<>>, <<"k">>}

\* The items and events the receivers' methods are called on.
Items == {[Key |-> <<"k">>, Ref |-> <<"r", "1">>]}

Events ==
    {[Key |-> <<"k">>, Type |-> <<"t">>, Ref |-> <<"r", "1">>,
      Timestamp |-> Timestamp(1500), Ordinal |-> 7]}

\* The one call of a behaviour: op with arguments args met exchange o and
\* came to w.
Wrote(op, args, o, w) ==
    /\ called.op = "none"
    /\ called' = [op |-> op, args |-> args]
    /\ sent' = w.sent
    /\ answer' = o
    /\ result' = [err |-> w.err, item |-> w.item]
    /\ UNCHANGED <<iterVars, served, returns, pageLoopVars, itemLoopVars, skipped,
                   timeVars>>

DoCreate ==
    \E key \in Keys, marshals \in BOOLEAN, o \in WriteOutcomes :
        Wrote("Create", [key |-> key, ref |-> <<>>], o, Create(key, marshals, o))

DoUpdate ==
    \E key \in Keys, marshals \in BOOLEAN, o \in WriteOutcomes :
        Wrote("Update", [key |-> key, ref |-> <<>>], o, Update(key, marshals, o))

DoItemUpdate ==
    \E i \in Items, marshals \in BOOLEAN, o \in WriteOutcomes :
        Wrote("Item.Update", [key |-> i.Key, ref |-> i.Ref], o,
              ItemUpdate(i, marshals, o))

DoItemDelete ==
    \E i \in Items, o \in WriteOutcomes :
        Wrote("Item.Delete", [key |-> i.Key, ref |-> i.Ref], o, ItemDelete(i, o))

DoItemPatch ==
    \E i \in Items, marshals \in BOOLEAN, o \in WriteOutcomes :
        Wrote("Item.Patch", [key |-> i.Key, ref |-> i.Ref], o,
              ItemPatch(i, marshals, o))

DoEventDelete ==
    \E e \in Events, o \in WriteOutcomes :
        Wrote("Event2.Delete", [key |-> e.Key, ref |-> e.Ref], o, EventDelete(e, o))

DoEventUpdate ==
    \E e \in Events, marshals \in BOOLEAN, o \in WriteOutcomes :
        Wrote("Event2.Update", [key |-> e.Key, ref |-> e.Ref], o,
              EventUpdate(e, marshals, o))

WritesStep ==
    \/ DoCreate
    \/ DoUpdate
    \/ DoItemUpdate
    \/ DoItemDelete
    \/ DoItemPatch
    \/ DoEventDelete
    \/ DoEventUpdate

InitWrites == Fresh(List) /\ NoTimestamp

SpecWrites == InitWrites /\ [][WritesStep]_vars

\* C23: innerPutPost sends its request with the method its caller passed:
\* Create with an empty key sends POST to "c/", Create with a key sends PUT
\* with the header If-None-Match "*", Update and Item.Update send PUT.
C23_MethodOfTheCaller ==
    sent # <<>> =>
        /\ called.op = "Create" /\ called.args.key = <<>> =>
              sent[1].method = "POST" /\ sent[1].path = <<"c", "/">>
        /\ called.op = "Create" /\ called.args.key # <<>> =>
              /\ sent[1].method = "PUT"
              /\ <<"If-None-Match", <<"\"", "*", "\"">>>> \in sent[1].headers
        /\ called.op \in {"Update", "Item.Update"} => sent[1].method = "PUT"

\* The error emptyReply hands to the call, stated by its cause.
Handed ==
    IF sent = <<>> THEN NoError
    ELSE IF answer.transport # "ok" THEN Err("TransportError")
    ELSE IF answer.StatusCode = sent[1].status THEN NoError
    ELSE IF ~answer.readable THEN Err("ReadError")
    ELSE Classified(answer.StatusCode)

\* The calls that translate a PreconditionFailedError.
Translating ==
    {"Create", "Item.Delete", "Item.Patch", "Item.Update", "Event2.Delete",
     "Event2.Update"}

\* C24: Create, Item.Delete, Item.Patch, Item.Update, Event2.Delete and
\* Event2.Update return a PreconditionFailedError translated, Create as
\* AlreadyExistsError(key) and the others as NotMostRecentError, and every
\* other error as it is; whenever they return an error they return no Item
\* and no Event2.
C24_PreconditionFailedTranslated ==
    called.op \in Translating =>
        /\ result.err # NoError => result.item = NoItem
        /\ Handed # NoError =>
              result.err =
                IF Handed # Err("PreconditionFailedError") THEN Handed
                ELSE IF called.op = "Create"
                THEN ErrOf("AlreadyExistsError", called.args.key)
                ELSE ErrOf("NotMostRecentError", result.err.arg)
        /\ result.err.type \in {"AlreadyExistsError", "NotMostRecentError"} =>
              Handed = Err("PreconditionFailedError")

\* C24: Item.Update met a 412 and returned NotMostRecentError and no Item.
C24_Witness ==
    /\ called.op = "Item.Update"
    /\ answer.StatusCode = 412
    /\ result.err.type = "NotMostRecentError"
    /\ result.item = NoItem

(***************************************************************************)
(* SpecDecodeOut: SpecDecode with the value argument of Get and GetEvent   *)
(* recorded in called.                                                     *)
(***************************************************************************)
DecodeGet ==
    /\ ~panicked
    /\ \E out \in BOOLEAN :
         /\ Apply("Get", Get(it, out), reply)
         /\ called' = [op |-> "Get", out |-> out]
    /\ UNCHANGED <<served, returns, pageLoopVars, itemLoopVars, skipped, timeVars,
                   sent, answer, result>>

DecodeGetEvent ==
    /\ ~panicked
    /\ \E out \in BOOLEAN :
         /\ Apply("GetEvent", GetEvent(it, out), reply)
         /\ called' = [op |-> "GetEvent", out |-> out]
    /\ UNCHANGED <<served, returns, pageLoopVars, itemLoopVars, skipped, timeVars,
                   sent, answer, result>>

DecodeOutStep ==
    \/ DecodeNext
    \/ DecodeGet
    \/ DecodeGetEvent

SpecDecodeOut == InitDecode /\ [][DecodeOutStep]_vars

\* Get() or GetEvent() was called in the iterator's mode and found an entry.
EntryRead == EntryCall /\ ~panicked

\* The payload of the entry at index before the call.
Payload == pre.results[pre.index + 1].Value

\* What json.Unmarshal makes of a payload: only well-formed JSON decodes.
Decoded(val) == IF val = "json" THEN NoError ELSE Err("UnmarshalError")

\* The typed result Get or GetEvent builds of entry r.
TypedEntry(r) == IF lastOp = "Get" THEN Item(r) ELSE Event2(r)

\* C25 as the specification states it: with a non-nil argument Get and
\* GetEvent decode the current payload and return the decode error, with
\* the typed result and without setting Error; with a nil argument nothing
\* is decoded and the error is nil.
C25_DecodesWheneverAsked ==
    EntryRead =>
        /\ ret.value = <<TypedEntry(pre.results[pre.index + 1])>>
        /\ it.Error = pre.Error
        /\ ret.err = IF called.out THEN Decoded(Payload) ELSE NoError

\* C25 as the code has it: with a non-nil argument GetEvent decodes the
\* current payload, and Get decodes it unless it is empty, and they return
\* the decode error, with the typed result and without setting Error; with
\* a nil argument, and in Get with an empty payload, nothing is decoded and
\* the error is nil.
C25_GetSkipsEmptyPayload ==
    EntryRead =>
        /\ ret.value = <<TypedEntry(pre.results[pre.index + 1])>>
        /\ it.Error = pre.Error
        /\ ret.err = IF ~called.out THEN NoError
                     ELSE IF lastOp = "Get" /\ Payload = "empty" THEN NoError
                     ELSE Decoded(Payload)

\* C25: GetEvent(value) met a payload that is no JSON and returned the
\* event with the decode error.
C25_Witness ==
    /\ EntryRead
    /\ lastOp = "GetEvent"
    /\ called.out
    /\ Payload = "garbage"
    /\ ret.err = Err("UnmarshalError")
    /\ Len(ret.value) = 1

\* C26: in every reachable state 0 <= index <= len(results), and no call of
\* GetPage or GetEventPage fails at run time.
C26_IndexWithinResults ==
    /\ 0 <= it.index
    /\ it.index <= Len(it.results)
    /\ lastOp \in {"GetPage", "GetEventPage"} => ~panicked

\* The three conditions of an iterator: still iterating, cleanly ended, failed.
StillIterating == ~it.done /\ it.Error = NoError

CleanlyEnded == it.done /\ it.Error = NoError

EndedInError == it.Error # NoError /\ ~it.done

\* C27: done and a non-nil Error are never both set, so the iterator is in
\* exactly one of Fresh/Loaded, Exhausted and Failed, and a false return of
\* Next() that leaves Error nil finds the iterator Exhausted.
C27_DoneExcludesError ==
    /\ ~(it.done /\ it.Error # NoError)
    /\ \/ StillIterating /\ ~CleanlyEnded /\ ~EndedInError
       \/ ~StillIterating /\ CleanlyEnded /\ ~EndedInError
       \/ ~StillIterating /\ ~CleanlyEnded /\ EndedInError
    /\ (lastOp = "Next" /\ ~ret.ok /\ it.Error = NoError) => CleanlyEnded

\* C27: Next() fetched, was answered an empty page and returned false with
\* Error nil and done set.
C27_Witness ==
    /\ lastOp = "Next"
    /\ ~ret.ok
    /\ gets # <<>>
    /\ CleanlyEnded
    /\ ~pre.done

(***************************************************************************)
(* SpecReread: one item or event iterator under any sequence of calls,     *)
(* with the call before the latest one and what it returned kept in        *)
(* result.                                                                 *)
(***************************************************************************)
Reread(op, c, o) ==
    /\ Apply(op, c, o)
    /\ result' = [err |-> NoError, op |-> lastOp, value |-> ret.value]
    /\ UNCHANGED <<served, returns, pageLoopVars, itemLoopVars, skipped, timeVars,
                   called, sent, answer>>

RereadNext ==
    /\ ~panicked
    /\ LET probe == Next(it, reply) IN
       IF probe.gets = <<>>
       THEN Reread("Next", probe, reply)
       ELSE /\ fetches < MaxFetches
            /\ \E o \in Outcomes(fetches + 1) : Reread("Next", Next(it, o), o)

RereadNextPage ==
    /\ ~panicked
    /\ LET probe == NextPage(it, reply) IN
       IF probe.gets = <<>>
       THEN Reread("NextPage", probe, reply)
       ELSE /\ fetches < MaxFetches
            /\ \E o \in Outcomes(fetches + 1) : Reread("NextPage", NextPage(it, o), o)

RereadGet ==
    /\ ~panicked
    /\ \E out \in BOOLEAN : Reread("Get", Get(it, out), reply)

RereadGetEvent ==
    /\ ~panicked
    /\ \E out \in BOOLEAN : Reread("GetEvent", GetEvent(it, out), reply)

RereadGetPage ==
    /\ ~panicked
    /\ Reread("GetPage", GetPage(it), reply)

RereadStep ==
    \/ RereadNext
    \/ RereadNextPage
    \/ RereadGet
    \/ RereadGetEvent
    \/ RereadGetPage

SpecReread == InitDecode /\ [][RereadStep]_vars

\* C28: Get() and GetEvent() issue no GET and leave the iterator as it was,
\* and a call that follows a call of the same accessor directly returns the
\* entry that one returned.
C28_EntryAccessorsReadOnly ==
    lastOp \in {"Get", "GetEvent"} =>
        /\ gets = <<>>
        /\ it = pre
        /\ result.op = lastOp => ret.value = result.value

\* C28: Get() was called twice in a row on a loaded item iterator and
\* returned an entry.
C28_Witness ==
    /\ lastOp = "Get"
    /\ result.op = "Get"
    /\ ~panicked
    /\ Len(ret.value) = 1
    /\ ret.value = result.value

(***************************************************************************)
(* SpecDeliver: one item iterator under any sequence of Next, NextPage,    *)
(* Get and GetPage, with the keys of the entries that the calls before the *)
(* latest one returned kept in result: gotten by Get, paged by GetPage.    *)
(***************************************************************************)
Gotten == IF lastOp = "new" THEN {} ELSE result.gotten

Paged == IF lastOp = "new" THEN {} ELSE result.paged

Deliver(op, c, o) ==
    /\ Apply(op, c, o)
    /\ result' = [err |-> NoError,
                  gotten |-> Gotten \cup (IF lastOp = "Get" THEN Returned ELSE {}),
                  paged |-> Paged \cup (IF lastOp = "GetPage" THEN Returned ELSE {})]
    /\ UNCHANGED <<served, returns, pageLoopVars, itemLoopVars, skipped, timeVars,
                   called, sent, answer>>

DeliverNext ==
    /\ ~panicked
    /\ LET probe == Next(it, reply) IN
       IF probe.gets = <<>>
       THEN Deliver("Next", probe, reply)
       ELSE /\ fetches < MaxFetches
            /\ \E o \in LoopOutcomes(fetches + 1) : Deliver("Next", Next(it, o), o)

DeliverNextPage ==
    /\ ~panicked
    /\ LET probe == NextPage(it, reply) IN
       IF probe.gets = <<>>
       THEN Deliver("NextPage", probe, reply)
       ELSE /\ fetches < MaxFetches
            /\ \E o \in LoopOutcomes(fetches + 1) :
                 Deliver("NextPage", NextPage(it, o), o)

DeliverGet ==
    /\ ~panicked
    /\ \E out \in BOOLEAN : Deliver("Get", Get(it, out), reply)

DeliverGetPage ==
    /\ ~panicked
    /\ Deliver("GetPage", GetPage(it), reply)

DeliverStep ==
    \/ DeliverNext
    \/ DeliverNextPage
    \/ DeliverGet
    \/ DeliverGetPage

SpecDeliver == InitSkip /\ [][DeliverStep]_vars

\* C29: GetPage() returns no entry that an earlier Get() or an earlier
\* GetPage() of the same iterator returned.
C29_NothingDeliveredTwice ==
    lastOp = "GetPage" => Returned \cap (Gotten \cup Paged) = {}

\* No entry is returned by two GetPage() calls.
NoEntryPagedTwice ==
    lastOp = "GetPage" => Returned \cap Paged = {}

====
